---- MODULE Spec2Model ----
(***************************************************************************)
(* Model of the services HTTP server (src/src/main.rs): the startup        *)
(* sequence of main, the services table with its SERIAL key and UNIQUE     *)
(* columns, and the three handlers get_services, create_service and        *)
(* delete_service, each run by concurrently handled requests.              *)
(*                                                                         *)
(* One SQL statement is one atomic step of the database.  A statement      *)
(* that fails (the database is unreachable, the pool times out) has no     *)
(* effect on the table; an INSERT rejected by a UNIQUE constraint has no   *)
(* effect on the table but has already drawn its id from the sequence.     *)
(***************************************************************************)
EXTENDS Integers, FiniteSets, Sequences, TLC

\* ---------------------------------------------------------------- bounds
MaxInFlight == 2        \* requests handled at the same time
MaxSeq == 3             \* the id sequence is explored up to this value

Names == {"a", "b"}
Links == {"x", "y"}
Slots == 1..MaxInFlight

VARIABLES
    pc,           \* position of main: env, connect, bootstrap, bind, serving, exited
    envSet,       \* DATABASE_URL is present in the environment
    poolOpen,     \* the connection pool has been opened
    tableExists,  \* the services table exists in the database
    services,     \* rows of the services table
    seq,          \* next value of the id sequence behind SERIAL
    reqs,         \* per request slot: the request and, once handled, its response
    issued,       \* history: every id ever given to a stored row
    raced         \* history: pairs of requests that were in flight together

vars == <<pc, envSet, poolOpen, tableExists, services, seq, reqs, issued, raced>>

\* ------------------------------------------------------------ data model
\* struct Service { id, name, link }
Service(id, name, link) == [id |-> id, name |-> name, link |-> link]

NoRow == Service(0, "-", "-")

\* StatusCode values used by the handlers
OK == 200
BAD_REQUEST == 400
NOT_FOUND == 404
INTERNAL_SERVER_ERROR == 500

\* A request slot.  db_up records whether the database answered the handler's
\* statement (history), rows is the JSON body (the listed rows, or the created
\* row), text the plain-text body.
Idle == [st |-> "idle", op |-> "-", name |-> "-", link |-> "-",
         db_up |-> FALSE, status |-> 0, rows |-> {}, text |-> ""]

Pending(op, name, link) == [st |-> "pending", op |-> op, name |-> name, link |-> link,
                            db_up |-> FALSE, status |-> 0, rows |-> {}, text |-> ""]

Done(r, up, resp) == [st |-> "done", op |-> r.op, name |-> r.name, link |-> r.link,
                      db_up |-> up,
                      status |-> resp.status, rows |-> resp.rows, text |-> resp.text]

Response(status, rows, text) == [status |-> status, rows |-> rows, text |-> text]

\* ------------------------------------------------------------- database
\* Variant: only the name column carries a UNIQUE constraint
ViolatesUniqueNameOnly(tbl, name, link) ==
    \E r \in tbl : r.name = name

\* name TEXT UNIQUE NOT NULL, link TEXT UNIQUE NOT NULL
ViolatesUnique(tbl, name, link) ==
    \E r \in tbl : r.name = name \/ r.link = link

\* Variant: the id is one more than the largest stored id
SerialIdMaxPlusOne(tbl, sq) ==
    IF tbl = {} THEN 1
    ELSE (CHOOSE i \in {r.id : r \in tbl} : \A r \in tbl : r.id <= i) + 1

\* id SERIAL PRIMARY KEY: the id of an inserted row is the sequence's value
SerialId(tbl, sq) == sq

\* The text of a storage error (e.to_string())
ErrText(kind) == IF kind = "unique" THEN "duplicate key value violates unique constraint"
                 ELSE "error communicating with database"

\* Variant: the table was created without its UNIQUE constraints
InsertNoConstraint(tbl, sq, up, name, link) ==
    IF ~up
    THEN [ok |-> FALSE, err |-> "io", row |-> NoRow, services |-> tbl, seq |-> sq]
    ELSE LET row == Service(sq, name, link)
         IN [ok |-> TRUE, err |-> "", row |-> row,
             services |-> tbl \cup {row}, seq |-> sq + 1]

\* INSERT INTO services (name, link) VALUES ($1, $2) RETURNING *
Insert(tbl, sq, up, name, link) ==
    IF ~up
    THEN [ok |-> FALSE, err |-> "io", row |-> NoRow, services |-> tbl, seq |-> sq]
    ELSE IF ViolatesUnique(tbl, name, link)
    THEN [ok |-> FALSE, err |-> "unique", row |-> NoRow, services |-> tbl, seq |-> sq + 1]
    ELSE LET row == Service(SerialId(tbl, sq), name, link)
         IN [ok |-> TRUE, err |-> "", row |-> row,
             services |-> tbl \cup {row}, seq |-> sq + 1]

\* DELETE FROM services WHERE name = $1
DeleteWhere(tbl, up, name) ==
    IF ~up
    THEN [ok |-> FALSE, err |-> "io", rows_affected |-> 0, services |-> tbl]
    ELSE LET hit == {r \in tbl : r.name = name}
         IN [ok |-> TRUE, err |-> "", rows_affected |-> Cardinality(hit),
             services |-> tbl \ hit]

\* Variant: the query returns at most one row (SELECT ... LIMIT 1)
SelectAllLimit1(tbl, up) ==
    IF ~up THEN [ok |-> FALSE, rows |-> {}]
    ELSE IF tbl = {} THEN [ok |-> TRUE, rows |-> {}]
    ELSE [ok |-> TRUE, rows |-> {CHOOSE r \in tbl : \A o \in tbl : r.id <= o.id}]

\* SELECT * FROM services
SelectAll(tbl, up) ==
    IF up THEN [ok |-> TRUE, rows |-> tbl] ELSE [ok |-> FALSE, rows |-> {}]

\* ------------------------------------------------------------- handlers
\* Variant: a failed query is passed on as an internal error
get_services_propagate(tbl, up) ==
    LET result == SelectAll(tbl, up)
    IN IF result.ok THEN Response(OK, result.rows, "")
       ELSE Response(INTERNAL_SERVER_ERROR, {}, ErrText("io"))

\* GET /services
get_services(tbl, up) ==
    LET result == SelectAll(tbl, up)
        listed == IF result.ok THEN result.rows ELSE {}   \* unwrap_or_else(|_| vec![])
    IN Response(OK, listed, "")

\* Variant: every failed INSERT is reported as an internal error
create_response_internal(result) ==
    IF result.ok
    THEN Response(OK, {result.row}, "")
    ELSE Response(INTERNAL_SERVER_ERROR, {}, "Failed to insert: " \o ErrText(result.err))

\* the match of create_service on the INSERT's result
create_response(result) ==
    IF result.ok
    THEN Response(OK, {result.row}, "")
    ELSE Response(BAD_REQUEST, {}, "Failed to insert: " \o ErrText(result.err))

\* POST /services
create_service(tbl, sq, up, name, link) ==
    LET result == Insert(tbl, sq, up, name, link)
    IN [resp |-> create_response(result), services |-> result.services, seq |-> result.seq]

\* Variant: the guard reads rows_affected() >= 0
delete_response_ge(result, name) ==
    IF result.ok /\ result.rows_affected >= 0
    THEN Response(OK, {}, "Deleted '" \o name \o "'")
    ELSE IF result.ok
    THEN Response(NOT_FOUND, {}, "Service not found")
    ELSE Response(INTERNAL_SERVER_ERROR, {}, ErrText(result.err))

\* Variant: the match has no arm for Err, which falls into not-found
delete_response_no_err(result, name) ==
    IF result.ok /\ result.rows_affected > 0
    THEN Response(OK, {}, "Deleted '" \o name \o "'")
    ELSE Response(NOT_FOUND, {}, "Service not found")

\* the match of delete_service on the DELETE's result
delete_response(result, name) ==
    IF result.ok /\ result.rows_affected > 0
    THEN Response(OK, {}, "Deleted '" \o name \o "'")
    ELSE IF result.ok
    THEN Response(NOT_FOUND, {}, "Service not found")
    ELSE Response(INTERNAL_SERVER_ERROR, {}, ErrText(result.err))

\* DELETE /services/:name
delete_service(tbl, up, name) ==
    LET result == DeleteWhere(tbl, up, name)
    IN [resp |-> delete_response(result, name), services |-> result.services]

\* ------------------------------------------------------ history of races
IsPendingOp(r, op) == r.st = "pending" /\ r.op = op

SharedName(r1, r2) == r1.name = r2.name
SharedLink(r1, r2) == r1.link = r2.link

Pairs == {p \in Slots \X Slots : p[1] < p[2]}

\* Two creates sharing a name or a link, both not yet executed, the table
\* holding neither shared value; or two deletes of the same stored name,
\* both not yet executed.
Racing(r1, r2, tbl) ==
    \/ /\ IsPendingOp(r1, "create") /\ IsPendingOp(r2, "create")
       /\ SharedName(r1, r2) \/ SharedLink(r1, r2)
       /\ SharedName(r1, r2) => ~\E r \in tbl : r.name = r1.name
       /\ SharedLink(r1, r2) => ~\E r \in tbl : r.link = r1.link
    \/ /\ IsPendingOp(r1, "delete") /\ IsPendingOp(r2, "delete")
       /\ r1.name = r2.name
       /\ \E r \in tbl : r.name = r1.name

\* The rows that hold a value the two requests compete for
Contested(r1, r2, tbl) ==
    IF r1.op = "create"
    THEN {r \in tbl : \/ SharedName(r1, r2) /\ r.name = r1.name
                      \/ SharedLink(r1, r2) /\ r.link = r1.link}
    ELSE {r \in tbl : r.name = r1.name}

\* A statement of a third request changed the rows the pair competes for:
\* for two creates, it removed the winner's row; for two deletes, it removed
\* or re-created the row of that name.
Disturbed(r1, r2, tbl, tbl2) ==
    IF r1.op = "create"
    THEN Contested(r1, r2, tbl) \ Contested(r1, r2, tbl2) # {}
    ELSE Contested(r1, r2, tbl) # Contested(r1, r2, tbl2)

\* raced after slot u moved from rq to rq2 and the table from tbl to tbl2
NextRaced(rq, rq2, tbl, tbl2, u) ==
    {p \in Pairs :
        \/ /\ p \in raced
           /\ rq2[p[1]].st # "idle" /\ rq2[p[2]].st # "idle"
           /\ u \in {p[1], p[2]} \/ tbl2 = tbl \/ ~Disturbed(rq[p[1]], rq[p[2]], tbl, tbl2)
        \/ Racing(rq2[p[1]], rq2[p[2]], tbl2)}

\* ---------------------------------------------------------------- startup
\* Tables a previous run of the program can have left behind
LeftBehind ==
    { [exists |-> FALSE, services |-> {}, seq |-> 1],
      [exists |-> TRUE,  services |-> {}, seq |-> 1],
      [exists |-> TRUE,  services |-> {Service(1, "a", "x")}, seq |-> 2] }

Init ==
    /\ pc = "env"
    /\ envSet \in BOOLEAN
    /\ poolOpen = FALSE
    /\ \E db \in LeftBehind :
          /\ tableExists = db.exists
          /\ services = db.services
          /\ seq = db.seq
          /\ issued = {r.id : r \in db.services}
    /\ reqs = [s \in Slots |-> Idle]
    /\ raced = {}

\* Variant: the step's error is dropped (.ok() in place of ?)
AfterStepIgnore(ok, next) == next

\* where main goes after a startup step that returned Ok or Err (the ? operator)
AfterStep(ok, next) == IF ok THEN next ELSE "exited"

\* let database_url = env::var("DATABASE_URL")?;
ReadEnv ==
    /\ pc = "env"
    /\ pc' = AfterStep(envSet, "connect")
    /\ UNCHANGED <<envSet, poolOpen, tableExists, services, seq, reqs, issued, raced>>

\* PgPoolOptions::new().max_connections(5).connect(&database_url).await?
Connect ==
    /\ pc = "connect"
    /\ \E up \in BOOLEAN :
          /\ pc' = AfterStep(up, "bootstrap")
          /\ poolOpen' = up
    /\ UNCHANGED <<envSet, tableExists, services, seq, reqs, issued, raced>>

\* CREATE TABLE IF NOT EXISTS services (...)
CreateTableIfNotExists(exists, tbl, sq, up) ==
    IF ~up THEN [ok |-> FALSE, exists |-> exists, services |-> tbl, seq |-> sq]
    ELSE IF exists THEN [ok |-> TRUE, exists |-> TRUE, services |-> tbl, seq |-> sq]
    ELSE [ok |-> TRUE, exists |-> TRUE, services |-> {}, seq |-> 1]

Bootstrap ==
    /\ pc = "bootstrap"
    /\ \E up \in BOOLEAN :
          LET db == CreateTableIfNotExists(tableExists, services, seq, up)
          IN /\ pc' = AfterStep(db.ok, "bind")
             /\ tableExists' = db.exists
             /\ services' = db.services
             /\ seq' = db.seq
    /\ UNCHANGED <<envSet, poolOpen, reqs, issued, raced>>

\* axum::Server::bind(&addr).serve(app.into_make_service())
Serve ==
    /\ pc = "bind"
    /\ pc' = "serving"
    /\ UNCHANGED <<envSet, poolOpen, tableExists, services, seq, reqs, issued, raced>>

\* requests reach the router only once main is serving
CanServe(p) == p = "serving"

\* --------------------------------------------------------------- requests
Requests ==
    {Pending("list", "-", "-")}
    \cup {Pending("create", n, l) : n \in Names, l \in Links}
    \cup {Pending("delete", n, "-") : n \in Names}

\* the router hands an incoming request to its handler; a new request takes
\* the first free slot
Accept(s) ==
    /\ CanServe(pc)
    /\ reqs[s].st = "idle"
    /\ \A t \in Slots : t < s => reqs[t].st # "idle"
    /\ \E r \in Requests :
          /\ reqs' = [reqs EXCEPT ![s] = r]
          /\ raced' = NextRaced(reqs, reqs', services, services, s)
    /\ UNCHANGED <<pc, envSet, poolOpen, tableExists, services, seq, issued>>

HandleList(s) ==
    /\ IsPendingOp(reqs[s], "list")
    /\ \E up \in BOOLEAN :
          reqs' = [reqs EXCEPT ![s] = Done(reqs[s], up, get_services(services, up))]
    /\ UNCHANGED <<pc, envSet, poolOpen, tableExists, services, seq, issued, raced>>

HandleCreate(s) ==
    /\ IsPendingOp(reqs[s], "create")
    /\ seq < MaxSeq
    /\ \E up \in BOOLEAN :
          LET out == create_service(services, seq, up, reqs[s].name, reqs[s].link)
          IN /\ reqs' = [reqs EXCEPT ![s] = Done(reqs[s], up, out.resp)]
             /\ services' = out.services
             /\ seq' = out.seq
             /\ issued' = issued \cup {r.id : r \in out.services \ services}
             /\ raced' = NextRaced(reqs, reqs', services, out.services, s)
    /\ UNCHANGED <<pc, envSet, poolOpen, tableExists>>

HandleDelete(s) ==
    /\ IsPendingOp(reqs[s], "delete")
    /\ \E up \in BOOLEAN :
          LET out == delete_service(services, up, reqs[s].name)
          IN /\ reqs' = [reqs EXCEPT ![s] = Done(reqs[s], up, out.resp)]
             /\ services' = out.services
             /\ raced' = NextRaced(reqs, reqs', services, out.services, s)
    /\ UNCHANGED <<pc, envSet, poolOpen, tableExists, seq, issued>>

\* the response is written to the client and the request is over
Respond(s) ==
    /\ reqs[s].st = "done"
    /\ reqs' = [reqs EXCEPT ![s] = Idle]
    /\ raced' = NextRaced(reqs, reqs', services, services, s)
    /\ UNCHANGED <<pc, envSet, poolOpen, tableExists, services, seq, issued>>

Next ==
    \/ ReadEnv
    \/ Connect
    \/ Bootstrap
    \/ Serve
    \/ \E s \in Slots : Accept(s)
    \/ \E s \in Slots : HandleList(s)
    \/ \E s \in Slots : HandleCreate(s)
    \/ \E s \in Slots : HandleDelete(s)
    \/ \E s \in Slots : Respond(s)

Spec == Init /\ [][Next]_vars

\* ============================================================ properties
\* slot s is handled in this step: its handler runs its statement and responds
HandledBy(s, op) == IsPendingOp(reqs[s], op) /\ reqs'[s].st = "done"

IsDone(r, op) == r.st = "done" /\ r.op = op

Held(tbl, name) == {r \in tbl : r.name = name}

\* C1: in every reachable state no two stored records share a name and no
\* two stored records share a link.
C1_NameAndLinkUnique ==
    \A r1, r2 \in services :
        r1 # r2 => r1.name # r2.name /\ r1.link # r2.link

C1_Witness ==
    /\ Cardinality(services) = 2
    /\ \E s \in Slots : IsDone(reqs[s], "create") /\ reqs[s].status = OK

\* C2: a create whose name or link is held by a stored record answers 400
\* and leaves the stored records as they were.
C2_DuplicateCreateRejected ==
    [][\A s \in Slots :
          (HandledBy(s, "create")
             /\ ViolatesUnique(services, reqs[s].name, reqs[s].link))
          => /\ reqs'[s].status = BAD_REQUEST
             /\ services' = services]_vars

C2_Witness ==
    \E s \in Slots :
        /\ IsDone(reqs[s], "create")
        /\ reqs[s].db_up
        /\ reqs[s].status = BAD_REQUEST
        /\ ViolatesUnique(services, reqs[s].name, reqs[s].link)

\* What C3 asks of the step that handles the create in slot s, for a list
\* whose query has outcome listUp
CreatedAndListed(s, listUp) ==
    LET created == reqs'[s].rows
        listed == get_services(services', listUp).rows
        same == {r \in listed : r.name = reqs[s].name /\ r.link = reqs[s].link}
    IN /\ reqs'[s].status = OK
       /\ Cardinality(created) = 1
       /\ same = created
       /\ \A r \in created : \A o \in services' \ created : o.id # r.id

\* C3 as stated: a create whose name and link no stored record holds
\* succeeds and returns the new record, and a list right after it holds
\* exactly one record of that name and link, with the returned id, which no
\* other stored record has.
C3_AsStated ==
    [][\A s \in Slots :
          (HandledBy(s, "create")
             /\ ~ViolatesUnique(services, reqs[s].name, reqs[s].link))
          => \A listUp \in BOOLEAN : CreatedAndListed(s, listUp)]_vars

\* C3, amended: the same, for a create whose INSERT and a list whose SELECT
\* are answered by the database (neither statement fails).
C3_CreateThenList ==
    [][\A s \in Slots :
          (HandledBy(s, "create")
             /\ reqs'[s].db_up
             /\ ~ViolatesUnique(services, reqs[s].name, reqs[s].link))
          => CreatedAndListed(s, TRUE)]_vars

C3_Witness ==
    \E s \in Slots :
        /\ IsDone(reqs[s], "create")
        /\ reqs[s].status = OK
        /\ reqs[s].rows \subseteq services
        /\ get_services(services, TRUE).rows = services
        /\ Cardinality(services) = 2

\* What C4 asks of the step that handles the delete in slot s
DeletedOrNotFound(s) ==
    IF Held(services, reqs[s].name) # {}
    THEN /\ Cardinality(services \ services') = 1
         /\ services' = services \ Held(services, reqs[s].name)
         /\ reqs'[s].status = OK
         /\ reqs'[s].text = "Deleted '" \o reqs[s].name \o "'"
    ELSE reqs'[s].status = NOT_FOUND

\* C4 as stated: a delete of a name held by a stored record removes that
\* one record, leaves every other record, and answers 200 "Deleted '<name>'";
\* a delete of a name no record holds any more answers 404.
C4_AsStated ==
    [][\A s \in Slots : HandledBy(s, "delete") => DeletedOrNotFound(s)]_vars

\* C4, amended: the same, for a delete whose DELETE statement is answered by
\* the database (the statement does not fail).
C4_DeleteThenNotFound ==
    [][\A s \in Slots :
          (HandledBy(s, "delete") /\ reqs'[s].db_up) => DeletedOrNotFound(s)]_vars

C4_Witness ==
    \E s, t \in Slots :
        /\ IsDone(reqs[s], "delete") /\ IsDone(reqs[t], "delete")
        /\ reqs[s].name = "a" /\ reqs[t].name = "a"
        /\ reqs[s].status = OK /\ reqs[s].text = "Deleted 'a'"
        /\ reqs[t].db_up /\ reqs[t].status = NOT_FOUND
        /\ services # {}

\* C5: a row that stays stored stays as it is, id included, and the id of a
\* newly stored row was never given to any row before, deleted rows included.
C5_IdFreshAndStable ==
    [][/\ \A r \in services' \ services :
             /\ r.id \notin issued
             /\ ~ViolatesUnique(services, r.name, r.link)
       /\ \A r1, r2 \in services' : r1 # r2 => r1.id # r2.id]_vars

C5_Witness ==
    /\ \E i \in issued : i \notin {r.id : r \in services}
    /\ \E s \in Slots :
          /\ IsDone(reqs[s], "create")
          /\ reqs[s].status = OK
          /\ reqs[s].rows \subseteq services
          /\ \A r \in reqs[s].rows : \E i \in issued : i < r.id

\* C6: a delete answers 200 exactly when one row was removed, 404 exactly
\* when the statement succeeded and no row had the name, 500 exactly when
\* the statement failed; with 404 and 500 the stored records are unchanged.
C6_DeleteThreeOutcomes ==
    [][\A s \in Slots :
          HandledBy(s, "delete")
          => LET st == reqs'[s].status
             IN /\ st \in {OK, NOT_FOUND, INTERNAL_SERVER_ERROR}
                /\ st = OK <=> Cardinality(services \ services') = 1
                /\ st = NOT_FOUND
                      <=> (reqs'[s].db_up /\ Held(services, reqs[s].name) = {})
                /\ st = INTERNAL_SERVER_ERROR <=> ~reqs'[s].db_up
                /\ st # OK => services' = services]_vars

C6_Witness ==
    \E s \in Slots :
        /\ IsDone(reqs[s], "delete")
        /\ ~reqs[s].db_up
        /\ reqs[s].status = INTERNAL_SERVER_ERROR
        /\ Held(services, reqs[s].name) # {}

\* C7: a create or a delete whose statement fails for another reason than a
\* uniqueness violation answers 500.
C7_StorageFailureIs500 ==
    [][\A s \in Slots :
          ((HandledBy(s, "create") \/ HandledBy(s, "delete")) /\ ~reqs'[s].db_up)
          => reqs'[s].status = INTERNAL_SERVER_ERROR]_vars

\* C8: a list always answers 200; when its query fails the body is the empty
\* sequence whatever is stored; the stored records are unchanged.
C8_ListNeverFails ==
    [][\A s \in Slots :
          HandledBy(s, "list")
          => /\ reqs'[s].status = OK
             /\ ~reqs'[s].db_up => reqs'[s].rows = {}
             /\ services' = services]_vars

C8_Witness ==
    \E s \in Slots :
        /\ IsDone(reqs[s], "list")
        /\ ~reqs[s].db_up
        /\ reqs[s].status = OK
        /\ reqs[s].rows = {}
        /\ services # {}

\* C9: a request is in a handler only while main is serving, with the pool
\* open and the table there; main gets past a startup step only if the step
\* succeeded, and once exited stays exited with no request served; the
\* table statement leaves an existing table's rows as they are.
StartupOrder ==
    /\ (\E s \in Slots : reqs[s].st # "idle") => pc = "serving"
    /\ pc \in {"connect", "bootstrap", "bind", "serving"} => envSet
    /\ pc \in {"bootstrap", "bind", "serving"} => poolOpen
    /\ pc \in {"bind", "serving"} => tableExists
    /\ pc = "exited" => \A s \in Slots : reqs[s].st = "idle"

C9_StartupOrdering ==
    /\ []StartupOrder
    /\ [][/\ pc = "exited" => pc' = "exited"
          /\ (pc = "bootstrap" /\ tableExists)
                => (services' = services /\ seq' = seq)]_vars

C9_Witness ==
    /\ pc = "serving"
    /\ seq = 2
    /\ \E s \in Slots :
          /\ IsDone(reqs[s], "list")
          /\ reqs[s].db_up
          /\ reqs[s].rows = {Service(1, "a", "x")}

====
